---- MODULE Spec2Model ----
(***************************************************************************)
(* Model of costing/azurerm_backend_costs.py: the Inputs dataclass, the    *)
(* growth projector _clients_in_year, the tier lookup                      *)
(* _blobs_vaulted_pi_monthly_fee and the year loop of                      *)
(* estimate_backend_costs.                                                 *)
(*                                                                         *)
(* Python floats are IEEE-754 binary64.  A float is modelled by its exact  *)
(* value, sign * m * 2^e, with the mantissa m an arbitrary-precision       *)
(* natural of exactly 53 bits (or zero), and every float operation rounds  *)
(* its exact result to 53 bits, ties to even, as the hardware does.  The   *)
(* exponent range is not modelled: the inputs enumerated keep every value  *)
(* far from overflow and from the subnormals.  -0.0 is identified with 0.0 *)
(* (they compare equal in Python).                                         *)
(***************************************************************************)
EXTENDS Integers, Sequences, FiniteSets, TLC

(***************************************************************************)
(* Arbitrary-precision naturals: little-endian sequences of limbs below    *)
(* Limb, without high zero limbs; <<>> is zero.                            *)
(***************************************************************************)
Limb == 2^15

RECURSIVE BNorm(_)
BNorm(a) ==
    IF a = <<>> THEN <<>>
    ELSE IF a[Len(a)] = 0 THEN BNorm(SubSeq(a, 1, Len(a) - 1))
    ELSE a

RECURSIVE BFromNat(_)
BFromNat(n) == IF n = 0 THEN <<>> ELSE <<n % Limb>> \o BFromNat(n \div Limb)

RECURSIVE BToNat(_)
BToNat(a) == IF a = <<>> THEN 0 ELSE Head(a) + Limb * BToNat(Tail(a))

RECURSIVE BAddC(_, _, _)
BAddC(a, b, c) ==
    IF a = <<>> /\ b = <<>> THEN (IF c = 0 THEN <<>> ELSE <<c>>)
    ELSE LET x == IF a = <<>> THEN 0 ELSE Head(a)
             y == IF b = <<>> THEN 0 ELSE Head(b)
             s == x + y + c
         IN  <<s % Limb>> \o BAddC(IF a = <<>> THEN <<>> ELSE Tail(a),
                                   IF b = <<>> THEN <<>> ELSE Tail(b),
                                   s \div Limb)

BAdd(a, b) == BAddC(a, b, 0)

\* a - b for a >= b
RECURSIVE BSubC(_, _, _)
BSubC(a, b, c) ==
    IF a = <<>> THEN <<>>
    ELSE LET y == IF b = <<>> THEN 0 ELSE Head(b)
             d == Head(a) - y - c
         IN  <<d % Limb>> \o BSubC(Tail(a),
                                   IF b = <<>> THEN <<>> ELSE Tail(b),
                                   IF d < 0 THEN 1 ELSE 0)

BSub(a, b) == BNorm(BSubC(a, b, 0))

\* -1, 0, 1 as a < b, a = b, a > b
RECURSIVE BCmp(_, _)
BCmp(a, b) ==
    IF Len(a) # Len(b) THEN (IF Len(a) < Len(b) THEN -1 ELSE 1)
    ELSE IF a = <<>> THEN 0
    ELSE IF a[Len(a)] # b[Len(b)] THEN (IF a[Len(a)] < b[Len(b)] THEN -1 ELSE 1)
    ELSE BCmp(SubSeq(a, 1, Len(a) - 1), SubSeq(b, 1, Len(b) - 1))

\* a * d + c for a limb-sized d and c
RECURSIVE BMulSmallC(_, _, _)
BMulSmallC(a, d, c) ==
    IF a = <<>> THEN (IF c = 0 THEN <<>> ELSE <<c>>)
    ELSE LET p == Head(a) * d + c
         IN  <<p % Limb>> \o BMulSmallC(Tail(a), d, p \div Limb)

BMulSmall(a, d) == BNorm(BMulSmallC(a, d, 0))

RECURSIVE BMul(_, _)
BMul(a, b) ==
    IF a = <<>> \/ b = <<>> THEN <<>>
    ELSE BAdd(BMulSmall(a, Head(b)),
              LET r == BMul(a, Tail(b)) IN IF r = <<>> THEN <<>> ELSE <<0>> \o r)

\* quotient and remainder of a by a limb-sized d > 0, high limb first
RECURSIVE BDivSmallR(_, _, _)
BDivSmallR(a, d, r) ==
    IF a = <<>> THEN [q |-> <<>>, r |-> r]
    ELSE LET cur  == r * Limb + a[Len(a)]
             rest == BDivSmallR(SubSeq(a, 1, Len(a) - 1), d, cur % d)
         IN  [q |-> rest.q \o <<cur \div d>>, r |-> rest.r]

BDivSmall(a, d) ==
    LET x == BDivSmallR(a, d, 0) IN [q |-> BNorm(x.q), r |-> x.r]

RECURSIVE SmallBitLen(_)
SmallBitLen(n) == IF n = 0 THEN 0 ELSE 1 + SmallBitLen(n \div 2)

BitLen(a) == IF a = <<>> THEN 0 ELSE 15 * (Len(a) - 1) + SmallBitLen(a[Len(a)])

\* a * 2^k
BShl(a, k) ==
    IF a = <<>> THEN <<>>
    ELSE [i \in 1..(k \div 15) |-> 0] \o BMulSmall(a, 2^(k % 15))

\* floor(a / 2^k)
BShr(a, k) ==
    IF k \div 15 >= Len(a) THEN <<>>
    ELSE BDivSmall(SubSeq(a, (k \div 15) + 1, Len(a)), 2^(k % 15)).q

\* a mod 2^k is not zero
BLowBits(a, k) == BShl(BShr(a, k), k) # a

BIsOdd(a) == a # <<>> /\ Head(a) % 2 = 1

(***************************************************************************)
(* binary64.  A float is [neg, m, e] with value (-1)^neg * m * 2^e and m   *)
(* of exactly Prec bits; zero is FZero.  ZeroDivisionError stands for the  *)
(* exception Python raises on a division by zero: every operation hands it *)
(* on, as the exception leaves the expression, and the enclosing step ends *)
(* in the raised outcome.  Intermediate values are passed on as operator   *)
(* parameters, named as the quantities they hold.                          *)
(***************************************************************************)
Prec == 53

FZero == [neg |-> FALSE, m |-> <<>>, e |-> 0]

ZeroDivisionError == [neg |-> FALSE, m |-> <<>>, e |-> 1]

IsErr(x) == x = ZeroDivisionError

\* the float of value m * 2^e, m of len bits and already rounded (when len is
\* Prec + 1, m is 2^Prec)
Pack(neg, m, e, len) ==
    IF len > Prec
    THEN [neg |-> neg, m |-> BShr(m, len - Prec), e |-> e + (len - Prec)]
    ELSE [neg |-> neg, m |-> BShl(m, Prec - len), e |-> e - (Prec - len)]

\* the kept bits with their guard bit
RoundGuard(h, sticky) ==
    IF BIsOdd(h) /\ (sticky \/ (Head(h) \div 2) % 2 = 1) THEN BAdd(h, <<1>>) ELSE h

RoundKept(neg, kept, e) == Pack(neg, kept, e, BitLen(kept))

RoundLen(neg, M, E, L) ==
    IF L <= Prec THEN Pack(neg, M, E, L)
    ELSE RoundKept(neg,
                   BShr(RoundGuard(BShr(M, L - Prec - 1), BLowBits(M, L - Prec - 1)), 1),
                   E + (L - Prec))

\* the float nearest to (-1)^neg * M * 2^E, ties to even
Round(neg, M, E) == IF M = <<>> THEN FZero ELSE RoundLen(neg, M, E, BitLen(M))

\* float(n) for a Python int n
FromInt(n) == Round(n < 0, BFromNat(IF n < 0 THEN -n ELSE n), 0)

FNeg(x) == IF IsErr(x) \/ x.m = <<>> THEN x ELSE [x EXCEPT !.neg = ~x.neg]

\* x * y
FMul(x, y) ==
    IF IsErr(x) \/ IsErr(y) THEN ZeroDivisionError
    ELSE Round(x.neg # y.neg, BMul(x.m, y.m), x.e + y.e)

\* the magnitudes a and b at the common exponent e, c their comparison
FAddMag(xneg, a, yneg, b, e, c) ==
    Round(IF xneg = yneg \/ c = 1 THEN xneg ELSE yneg,
          IF xneg = yneg THEN BAdd(a, b)
          ELSE IF c = 1 THEN BSub(a, b) ELSE BSub(b, a),
          e)

FAddAligned(xneg, a, yneg, b, e) == FAddMag(xneg, a, yneg, b, e, BCmp(a, b))

FAddAt(x, y, e) == FAddAligned(x.neg, BShl(x.m, x.e - e), y.neg, BShl(y.m, y.e - e), e)

\* x + y
FAdd(x, y) ==
    IF IsErr(x) \/ IsErr(y) THEN ZeroDivisionError
    ELSE IF x.m = <<>> THEN y
    ELSE IF y.m = <<>> THEN x
    ELSE FAddAt(x, y, IF x.e < y.e THEN x.e ELSE y.e)

IsNegative(d) == d.neg /\ d.m # <<>>

\* x < y
FLess(x, y) == IsNegative(FAdd(x, FNeg(y)))

\* the number of low zero bits of a # 0
RECURSIVE TrailingZeros(_)
TrailingZeros(a) ==
    IF Head(a) = 0 THEN 15 + TrailingZeros(Tail(a))
    ELSE IF Head(a) % 2 = 0 THEN 1 + TrailingZeros(<<Head(a) \div 2>>)
    ELSE 0

FDivSticky(neg, dv, e) ==
    Round(neg, BAdd(BShl(dv.q, 1), IF dv.r = 0 THEN <<>> ELSE <<1>>), e)

FDivOdd(x, y, t) ==
    FDivSticky(x.neg # y.neg,
               BDivSmall(BShl(x.m, 18), BToNat(BShr(y.m, t))),
               x.e - y.e - t - 19)

\* x / y.  Every divisor of the program (1024.0, 10000.0, 12.0, 1024.0 ** 3,
\* the account count) is a small integer: its odd part is below Limb.  The
\* quotient is taken to 56 bits or more with a sticky bit, then rounded.
FDiv(x, y) ==
    IF IsErr(x) \/ IsErr(y) \/ y.m = <<>> THEN ZeroDivisionError
    ELSE IF x.m = <<>> THEN FZero
    ELSE FDivOdd(x, y, TrailingZeros(y.m))

RECURSIVE BPow(_, _)
BPow(a, n) == IF n = 0 THEN <<1>> ELSE BMul(a, BPow(a, n - 1))

\* x ** n for a Python int n >= 0: the exact power, rounded once (pow(x, 0) is
\* 1.0 and pow(x, 1) is x in every libm)
FPow(x, n) ==
    IF IsErr(x) THEN ZeroDivisionError
    ELSE Round(x.neg /\ n % 2 = 1, BPow(x.m, n), x.e * n)

CeilFloor(x, q) == IF x.neg THEN -q ELSE IF BLowBits(x.m, -x.e) THEN q + 1 ELSE q

\* math.ceil(x), a Python int
Ceil(x) ==
    IF x.m = <<>> THEN 0
    ELSE IF x.e >= 0 THEN (IF x.neg THEN -1 ELSE 1) * BToNat(BShl(x.m, x.e))
    ELSE CeilFloor(x, BToNat(BShr(x.m, -x.e)))

\* int(x): truncation toward zero
Trunc(x) ==
    IF x.m = <<>> THEN 0
    ELSE (IF x.neg THEN -1 ELSE 1) *
         (IF x.e >= 0 THEN BToNat(BShl(x.m, x.e)) ELSE BToNat(BShr(x.m, -x.e)))

\* the float a decimal literal n/d denotes: the nearest one
Dec(n, d) == FDiv(FromInt(n), FromInt(d))

(***************************************************************************)
(* The program's data.  An Inputs instance is a record of its fields; its  *)
(* blob_vaulted_tiers field is a reference (an index of heap, None when    *)
(* unset) to a dict, a function from band keys to fractions.               *)
(***************************************************************************)
None == 0

BandKeys == {"<10GB", "10-100GB", "100GB-1TB", ">=1TB"}

\* the dict literal of __post_init__
DefaultTiers ==
    [k \in BandKeys |->
        CASE k = "<10GB"     -> Dec(10, 100)
          [] k = "10-100GB"  -> Dec(30, 100)
          [] k = "100GB-1TB" -> Dec(60, 100)
          [] k = ">=1TB"     -> Dec(100, 100)]

\* dict.get(key, default)
Get(tiers, key, default) == IF key \in DOMAIN tiers THEN tiers[key] ELSE default

\* Inputs.__post_init__ on the instance self, the dicts allocated so far being
\* dicts: an unset table becomes a new dict, a given one is kept as it is
\* __post_init__ with the first dict made kept as the default of all instances
PostInitSharedDefault(self, dicts) ==
    IF self.blob_vaulted_tiers = None
    THEN [self  |-> [self EXCEPT !.blob_vaulted_tiers = 1],
          dicts |-> IF dicts = <<>> THEN <<DefaultTiers>> ELSE dicts]
    ELSE [self |-> self, dicts |-> dicts]

PostInit(self, dicts) ==
    IF self.blob_vaulted_tiers = None
    THEN [self  |-> [self EXCEPT !.blob_vaulted_tiers = Len(dicts) + 1],
          dicts |-> Append(dicts, DefaultTiers)]
    ELSE [self |-> self, dicts |-> dicts]

\* def _clients_in_year(base_clients, growth_rate, year_index)
clients_in_year(base_clients, growth_rate, year_index) ==
    Ceil(FMul(FromInt(base_clients),
              FPow(FAdd(FromInt(1), growth_rate), year_index)))

\* the lookup with the upper bound of a band inclusive
pi_monthly_fee_inclusive(per_account_size_gb, base_monthly, tiers) ==
    IF ~FLess(FromInt(10), per_account_size_gb)
    THEN FMul(base_monthly, Get(tiers, "<10GB", FZero))
    ELSE IF ~FLess(FromInt(100), per_account_size_gb)
    THEN FMul(base_monthly, Get(tiers, "10-100GB", FZero))
    ELSE IF ~FLess(FromInt(1024), per_account_size_gb)
    THEN FMul(base_monthly, Get(tiers, "100GB-1TB", FZero))
    ELSE FMul(base_monthly, Get(tiers, ">=1TB", FromInt(1)))

\* def _blobs_vaulted_pi_monthly_fee(per_account_size_gb, base_monthly, tiers)
blobs_vaulted_pi_monthly_fee(per_account_size_gb, base_monthly, tiers) ==
    IF FLess(per_account_size_gb, FromInt(10))
    THEN FMul(base_monthly, Get(tiers, "<10GB", FZero))
    ELSE IF FLess(per_account_size_gb, FromInt(100))
    THEN FMul(base_monthly, Get(tiers, "10-100GB", FZero))
    ELSE IF FLess(per_account_size_gb, FromInt(1024))
    THEN FMul(base_monthly, Get(tiers, "100GB-1TB", FZero))
    ELSE FMul(base_monthly, Get(tiers, ">=1TB", FromInt(1)))

(***************************************************************************)
(* estimate_backend_costs: the values computed before the loop and the     *)
(* sections of the loop body.  A section's operator takes the locals it    *)
(* reads as parameters, under their names in the source.                   *)
(***************************************************************************)
total_accounts(inp) == inp.num_regions * inp.storage_accounts_per_region

avg_state_size_gb(inp) == FDiv(inp.avg_state_size_mb, FromInt(1024))

\* the environments counted once per region
total_envs_per_region(inp, clients_y) ==
    FMul(FMul(FromInt(clients_y), inp.envs_per_client), FromInt(inp.num_regions))

total_envs(inp, clients_y) == FMul(FromInt(clients_y), inp.envs_per_client)

total_state_gb(inp, envs) == FMul(envs, avg_state_size_gb(inp))

storage_cost_year(rt, state_gb) ==
    FMul(FMul(state_gb, rt.storage_gb_month_price), FromInt(12))

reads_per_env(inp) ==
    (3 * inp.deployments_per_env_per_year) + inp.pr_runs_per_client_per_year

writes_per_env(inp) == 1 * inp.deployments_per_env_per_year

TransactionsDict(total_reads, total_writes, total_txns, read_cost_year, write_cost_year) ==
    [reads          |-> Trunc(total_reads),
     writes         |-> Trunc(total_writes),
     total          |-> Trunc(total_txns),
     read_cost      |-> read_cost_year,
     write_cost     |-> write_cost_year,
     total_txn_cost |-> FAdd(read_cost_year, write_cost_year)]

TransactionCosts(rt, total_reads, total_writes) ==
    TransactionsDict(total_reads, total_writes, FAdd(total_reads, total_writes),
                     FMul(FDiv(total_reads, FromInt(10000)), rt.read_txn_per_10k_price),
                     FMul(FDiv(total_writes, FromInt(10000)), rt.write_txn_per_10k_price))

Transactions(inp, rt, envs) ==
    TransactionCosts(rt, FMul(FromInt(reads_per_env(inp)), envs),
                         FMul(FromInt(writes_per_env(inp)), envs))

\* total_txns, the float the "total" entry truncates
total_txns(inp, envs) ==
    FAdd(FMul(FromInt(reads_per_env(inp)), envs),
         FMul(FromInt(writes_per_env(inp)), envs))

pe_hours_year(inp) ==
    FMul(FMul(FromInt(total_accounts(inp)), inp.hours_per_month), FromInt(12))

PrivateLinkDict(pe_hours, data_processed_gb_year, pe_hour_cost_year, pe_data_cost_year) ==
    [endpoint_hours     |-> pe_hours,
     data_processed_gb  |-> data_processed_gb_year,
     endpoint_hour_cost |-> pe_hour_cost_year,
     data_cost          |-> pe_data_cost_year,
     total_pl_cost      |-> FAdd(pe_hour_cost_year, pe_data_cost_year)]

PrivateLinkCosts(rt, pe_hours, data_processed_gb_year) ==
    PrivateLinkDict(pe_hours, data_processed_gb_year,
                    FMul(pe_hours, rt.private_endpoint_hour_price),
                    FMul(data_processed_gb_year, rt.private_link_data_price_per_gb))

PrivateLink(inp, rt, txns) ==
    PrivateLinkCosts(rt, pe_hours_year(inp), FMul(txns, avg_state_size_gb(inp)))

LoggingDict(inp, rt, log_gb_per_account_per_month, log_ingestion_gb_year) ==
    [log_bytes_per_txn        |-> inp.log_bytes_per_txn,
     gb_per_account_per_month |-> log_gb_per_account_per_month,
     ingestion_gb_year        |-> log_ingestion_gb_year,
     ingestion_cost_year      |-> FMul(log_ingestion_gb_year,
                                       rt.log_ingestion_price_per_gb)]

\* the branch taken when total_accounts > 0
LoggingPerAccount(inp, rt, log_gb_per_account_per_month) ==
    LoggingDict(inp, rt, log_gb_per_account_per_month,
                FMul(FMul(FromInt(total_accounts(inp)), log_gb_per_account_per_month),
                     FromInt(12)))

\* the logging section without the guard on total_accounts
LoggingNoGuard(inp, rt, txns) ==
    LoggingPerAccount(inp, rt,
        FDiv(FMul(FDiv(FDiv(txns, FromInt(12)), FromInt(total_accounts(inp))),
                  inp.log_bytes_per_txn),
             FPow(FromInt(1024), 3)))

Logging(inp, rt, txns) ==
    IF total_accounts(inp) > 0
    THEN LoggingPerAccount(inp, rt,
             FDiv(FMul(FDiv(FDiv(txns, FromInt(12)), FromInt(total_accounts(inp))),
                       inp.log_bytes_per_txn),
                  FPow(FromInt(1024), 3)))
    ELSE LoggingDict(inp, rt, FZero, FZero)

\* the backup dict as first assigned: every number 0.0
BackupZero(inp) ==
    [mode                        |-> inp.backup_mode,
     per_account_size_gb         |-> FZero,
     pi_monthly_fee_per_account  |-> FZero,
     instance_cost_year          |-> FZero,
     vault_storage_cost_year     |-> FZero,
     backup_write_ops_year       |-> FZero,
     backup_write_ops_cost_year  |-> FZero]

\* the entries assigned in blobs_vaulted mode
BackupVaulted(inp, per_account_size_gb, pi_monthly, yearly_backup_writes) ==
    [mode                       |-> inp.backup_mode,
     per_account_size_gb        |-> per_account_size_gb,
     pi_monthly_fee_per_account |-> pi_monthly,
     instance_cost_year         |->
         FMul(FMul(pi_monthly, FromInt(total_accounts(inp))), FromInt(12)),
     vault_storage_cost_year    |->
         FMul(FMul(FMul(inp.backup_vault_storage_gb_per_account_month,
                        inp.backup_vault_storage_price_per_gb_month),
                   FromInt(total_accounts(inp))), FromInt(12)),
     backup_write_ops_year      |-> yearly_backup_writes,
     backup_write_ops_cost_year |->
         FMul(FDiv(yearly_backup_writes, FromInt(10000)),
              inp.blob_vaulted_write_per_10k_price)]

\* the body of if inputs.backup_mode != "none" and total_accounts > 0
BackupSized(inp, tiers, per_account_size_gb) ==
    IF inp.backup_mode = "blobs_vaulted"
    THEN BackupVaulted(inp, per_account_size_gb,
             blobs_vaulted_pi_monthly_fee(per_account_size_gb,
                                          inp.blob_vaulted_pi_price_per_month,
                                          tiers),
             FMul(FMul(inp.blob_vaulted_write_ops_per_month_per_account,
                       FromInt(total_accounts(inp))), FromInt(12)))
    ELSE [BackupZero(inp) EXCEPT !.per_account_size_gb = per_account_size_gb]

\* the backup section entered in mode "none" too
BackupIgnoresNone(inp, tiers, state_gb) ==
    IF total_accounts(inp) > 0
    THEN BackupSized(inp, tiers, FDiv(state_gb, FromInt(total_accounts(inp))))
    ELSE BackupZero(inp)

Backup(inp, tiers, state_gb) ==
    IF inp.backup_mode # "none" /\ total_accounts(inp) > 0
    THEN BackupSized(inp, tiers,
             IF total_accounts(inp) > 0
             THEN FDiv(state_gb, FromInt(total_accounts(inp)))
             ELSE FZero)
    ELSE BackupZero(inp)

\* the backup lines added to the year total
backup_total(backup) ==
    FAdd(FAdd(backup.instance_cost_year, backup.vault_storage_cost_year),
         backup.backup_write_ops_cost_year)

\* the year total with the backup lines never added
year_total_without_backup(inp, storage_cost, txn_cost, private_link_cost, log_cost, backup) ==
    FAdd(FAdd(FAdd(storage_cost, txn_cost), private_link_cost), log_cost)

\* the year total: the four cost lines, and the backup lines in vaulted mode
year_total(inp, storage_cost, txn_cost, private_link_cost, log_cost, backup) ==
    IF inp.backup_mode = "blobs_vaulted"
    THEN FAdd(FAdd(FAdd(FAdd(storage_cost, txn_cost), private_link_cost), log_cost),
              backup_total(backup))
    ELSE FAdd(FAdd(FAdd(storage_cost, txn_cost), private_link_cost), log_cost)

\* the year_breakdown dict.  The two fields rounded to six decimals for the
\* report (avg_state_size_gb, storage_gb) are left out: no cost is computed
\* from them.
YearAssembly(inp, y, clients_y, envs, txn, st, pl, lg, bk) ==
    [year_index          |-> y + 1,
     clients             |-> clients_y,
     environments_global |-> envs,
     storage_accounts    |-> total_accounts(inp),
     transactions        |-> txn,
     private_link        |-> pl,
     logging             |-> lg,
     backup              |-> bk,
     storage_cost_year   |-> st,
     year_total_cost     |-> year_total(inp, st, txn.total_txn_cost, pl.total_pl_cost,
                                        lg.ingestion_cost_year, bk)]

YearSections(inp, tiers, rt, y, clients_y, envs, state_gb, txns) ==
    YearAssembly(inp, y, clients_y, envs,
                 Transactions(inp, rt, envs),
                 storage_cost_year(rt, state_gb),
                 PrivateLink(inp, rt, txns),
                 Logging(inp, rt, txns),
                 Backup(inp, tiers, state_gb))

YearOfEnvs(inp, tiers, rt, y, clients_y, envs) ==
    YearSections(inp, tiers, rt, y, clients_y, envs,
                 total_state_gb(inp, envs), total_txns(inp, envs))

YearOfClients(inp, tiers, rt, y, clients_y) ==
    YearOfEnvs(inp, tiers, rt, y, clients_y, total_envs(inp, clients_y))

\* the iteration with the growth compounded from index 1
YearBreakdownFromOne(inp, tiers, rt, y) ==
    YearOfClients(inp, tiers, rt, y,
                  clients_in_year(inp.num_clients, inp.growth_rate_clients, y + 1))

\* one iteration of the loop: the year_breakdown dict appended for index y
YearBreakdown(inp, tiers, rt, y) ==
    YearOfClients(inp, tiers, rt, y,
                  clients_in_year(inp.num_clients, inp.growth_rate_clients, y))

\* the iteration raised instead of assembling its record
Raises(rec) ==
    \/ IsErr(rec.year_total_cost)
    \/ IsErr(rec.logging.gb_per_account_per_month)
    \/ IsErr(rec.backup.per_account_size_gb)

\* the total taken from the last record alone
PyLast(xs) == IF xs = <<>> THEN FZero ELSE xs[Len(xs)]

\* the builtin sum over floats: from 0, left to right
RECURSIVE PySum(_)
PySum(xs) ==
    IF xs = <<>> THEN FZero
    ELSE FAdd(PySum(SubSeq(xs, 1, Len(xs) - 1)), xs[Len(xs)])

(***************************************************************************)
(* The values the driver hands in.  runner.py gives one Rates and one      *)
(* Inputs; the sets below vary the fields the cost formulas branch on and  *)
(* keep runner.py's value for the others.  Nothing validates an Inputs, so *)
(* a negative client count, a growth rate of -1 and a horizon of 0 years   *)
(* are values an instance can hold.                                        *)
(***************************************************************************)
MaxYears == 3

RunnerRates ==
    [storage_gb_month_price         |-> Dec(18, 1000),
     read_txn_per_10k_price         |-> Dec(4, 1000),
     write_txn_per_10k_price        |-> Dec(5, 100),
     private_endpoint_hour_price    |-> Dec(1, 100),
     private_link_data_price_per_gb |-> Dec(1, 100),
     log_ingestion_price_per_gb     |-> Dec(276, 100)]

RatesValues == {RunnerRates}

BackupModes == {"none", "blobs_operational", "blobs_vaulted"}

\* Inputs(...) with runner.py's arguments but for the ones named
InputsOf(clients, size_mb, regions, mode, growth, horizon, tiers) ==
    [num_clients                                  |-> clients,
     envs_per_client                              |-> Dec(35, 10),
     avg_state_size_mb                            |-> size_mb,
     deployments_per_env_per_year                 |-> 200,
     pr_runs_per_client_per_year                  |-> 16,
     num_regions                                  |-> regions,
     storage_accounts_per_region                  |-> 2,
     log_bytes_per_txn                            |-> FromInt(1024),
     backup_mode                                  |-> mode,
     blob_vaulted_pi_price_per_month              |-> FromInt(8),
     blob_vaulted_tiers                           |-> tiers,
     blob_vaulted_write_per_10k_price             |-> Dec(57, 1000),
     blob_vaulted_write_ops_per_month_per_account |-> FromInt(5000),
     backup_vault_storage_gb_per_account_month    |-> FromInt(10),
     backup_vault_storage_price_per_gb_month      |-> Dec(23, 1000),
     growth_rate_clients                          |-> growth,
     years                                        |-> horizon,
     hours_per_month                              |-> FromInt(730)]

ClientValues == {-1, 100}

SizeValues == {FromInt(1), FromInt(512)}

RegionValues == {0, 3}

GrowthValues == {FromInt(-1), Dec(1, 10), Dec(1, 4)}

\* the constructor calls of a run of the estimate: the table left unset
EstimateArgs ==
    {InputsOf(c, s, r, m, g, n, None) :
        c \in ClientValues, s \in SizeValues, r \in RegionValues,
        m \in BackupModes, g \in GrowthValues, n \in 0..MaxYears}

VARIABLES
    heap,               \* the dicts allocated so far, by reference
    instances,          \* the Inputs instances constructed so far
    tiers_arg,          \* the blob_vaulted_tiers argument each was constructed with
    last,               \* the caller's last statement
    pc,                 \* where the estimate is: idle, loop, returned, raised
    inputs,             \* estimate_backend_costs: the instance passed (an index)
    rates,              \*   the Rates passed
    y,                  \*   the loop variable: the iterations done
    breakdown_by_year,  \*   the list being built
    result,             \*   the dict returned
    growth_call,        \* a call of _clients_in_year: arguments and result
    tier_call           \* a call of _blobs_vaulted_pi_monthly_fee

vars == <<heap, instances, tiers_arg, last, pc, inputs, rates, y,
          breakdown_by_year, result, growth_call, tier_call>>

est_vars == <<pc, inputs, rates, y, breakdown_by_year, result>>

obj_vars == <<heap, instances, tiers_arg, last>>

NoResult == [by_year |-> <<>>, grand_total |-> FZero, returned |-> FALSE]

NoCall == [done |-> FALSE]

InitObjects ==
    /\ heap = <<>>
    /\ instances = <<>>
    /\ tiers_arg = <<>>
    /\ last = [op |-> "none", inst |-> 0]

InitEstimate ==
    /\ pc = "idle"
    /\ inputs = 0
    /\ rates = RunnerRates
    /\ y = 0
    /\ breakdown_by_year = <<>>
    /\ result = NoResult

\* Inputs(..., blob_vaulted_tiers = a.blob_vaulted_tiers): the dataclass
\* __init__ stores the arguments, then __post_init__ runs.  No argument is
\* checked: the call returns an instance whatever the values.
Construct(a) ==
    LET made == PostInit(a, heap) IN
    /\ instances' = Append(instances, made.self)
    /\ heap' = made.dicts
    /\ tiers_arg' = Append(tiers_arg, a.blob_vaulted_tiers)
    /\ last' = [op |-> "Inputs", inst |-> Len(instances) + 1]

\* the instance and the table estimate_backend_costs reads
Inp == instances[inputs]

TiersOf(i) == heap[instances[i].blob_vaulted_tiers]

\* the driver constructs the Inputs of the run
Build ==
    /\ pc = "idle"
    /\ instances = <<>>
    /\ \E a \in EstimateArgs : Construct(a)
    /\ UNCHANGED <<est_vars, growth_call, tier_call>>

\* estimate_backend_costs(inputs, rates): up to the loop
Call ==
    /\ pc = "idle"
    /\ \E i \in 1..Len(instances), r \in RatesValues :
        /\ inputs' = i
        /\ rates' = r
    /\ y' = 0
    /\ breakdown_by_year' = <<>>
    /\ pc' = "loop"
    /\ UNCHANGED <<obj_vars, result, growth_call, tier_call>>

\* the iteration computed rec, or raised
Iterate(rec) ==
    IF Raises(rec)
    THEN /\ pc' = "raised"
         /\ UNCHANGED <<y, breakdown_by_year>>
    ELSE /\ breakdown_by_year' = Append(breakdown_by_year, rec)
         /\ y' = y + 1
         /\ pc' = pc

\* one iteration of for y in range(inputs.years)
YearStep ==
    /\ pc = "loop"
    /\ y < Inp.years
    /\ Iterate(YearBreakdown(Inp, TiersOf(inputs), rates, y))
    /\ UNCHANGED <<obj_vars, inputs, rates, result, growth_call, tier_call>>

\* the loop is over: grand_total and the return
Return ==
    /\ pc = "loop"
    /\ y >= Inp.years
    /\ result' = [by_year     |-> breakdown_by_year,
                  grand_total |-> PySum([i \in 1..Len(breakdown_by_year) |->
                                            breakdown_by_year[i].year_total_cost]),
                  returned    |-> TRUE]
    /\ pc' = "returned"
    /\ UNCHANGED <<obj_vars, inputs, rates, y, breakdown_by_year,
                   growth_call, tier_call>>

Init ==
    /\ InitObjects
    /\ InitEstimate
    /\ growth_call = NoCall
    /\ tier_call = NoCall

Next == Build \/ Call \/ YearStep \/ Return

Spec == Init /\ [][Next]_vars

(***************************************************************************)
(* The caller's side of the Inputs objects: dicts of its own, any number   *)
(* of constructions with the table unset or given, and item assignments    *)
(* through an instance's blob_vaulted_tiers.                               *)
(***************************************************************************)
MaxInstances == 2

MaxCallerDicts == 1

\* the dicts a caller writes
CallerTables ==
    {[k \in BandKeys |-> Dec(1, 2)],
     [k \in {"<10GB", ">=1TB"} |-> Dec(1, 4)]}

\* the dicts the caller made itself (the others come from __post_init__)
CallerDicts == Len(heap) - Cardinality({i \in 1..Len(tiers_arg) : tiers_arg[i] = None})

\* d = {...}
NewDict ==
    /\ CallerDicts < MaxCallerDicts
    /\ \E t \in CallerTables : heap' = Append(heap, t)
    /\ last' = [op |-> "dict", inst |-> 0]
    /\ UNCHANGED <<instances, tiers_arg, est_vars, growth_call, tier_call>>

\* Inputs(...), the table unset or any dict the caller can name
ConstructAny ==
    /\ Len(instances) < MaxInstances
    /\ \E t \in {None} \cup (1..Len(heap)), n \in {0, 1} :
          Construct(InputsOf(100, FromInt(1), 3, "blobs_vaulted", Dec(1, 4), n, t))
    /\ UNCHANGED <<est_vars, growth_call, tier_call>>

\* instances[i].blob_vaulted_tiers[k] = v
SetItem ==
    /\ \E i \in 1..Len(instances), k \in {"<10GB"}, v \in {Dec(3, 4)} :
        /\ heap' = [heap EXCEPT ![instances[i].blob_vaulted_tiers] =
                        [kk \in DOMAIN @ \cup {k} |-> IF kk = k THEN v ELSE @[kk]]]
        /\ last' = [op |-> "setitem", inst |-> i]
    /\ UNCHANGED <<instances, tiers_arg, est_vars, growth_call, tier_call>>

NextInputs == NewDict \/ ConstructAny \/ SetItem

SpecInputs == Init /\ [][NextInputs]_vars

(***************************************************************************)
(* _clients_in_year and _blobs_vaulted_pi_monthly_fee on their own: the    *)
(* arguments are drawn, then the function is applied.                      *)
(***************************************************************************)
MaxIndex == 3

BaseValues == {0, 1, 3, 10, 25, 100}

RateValues ==
    {FZero, Dec(1, 10), Dec(12, 100), Dec(1, 4), Dec(1, 2), Dec(7, 100), Dec(-1, 2),
     FromInt(1)}

InitGrowth ==
    /\ InitObjects
    /\ InitEstimate
    /\ tier_call = NoCall
    /\ \E b \in BaseValues, r \in RateValues, i \in 0..MaxIndex :
          growth_call = [base_clients |-> b, growth_rate |-> r, year_index |-> i,
                         ret |-> 0, done |-> FALSE]

GrowthApply ==
    /\ ~growth_call.done
    /\ growth_call' =
          [growth_call EXCEPT
              !.ret = clients_in_year(growth_call.base_clients,
                                      growth_call.growth_rate,
                                      growth_call.year_index),
              !.done = TRUE]
    /\ UNCHANGED <<obj_vars, est_vars, tier_call>>

SpecGrowth == InitGrowth /\ [][GrowthApply]_vars

SizeArgs ==
    {FZero, Dec(9999, 1000), FromInt(10), Dec(99999, 1000), FromInt(100),
     Dec(1023999, 1000), FromInt(1024), FromInt(5000)}

TierTables ==
    {DefaultTiers, [k \in BandKeys |-> Dec(1, 2)], [k \in {} |-> FZero]}
      \cup {[k \in BandKeys \ {missing} |-> DefaultTiers[k]] : missing \in BandKeys}

BaseMonthlyValues == {FromInt(8), Dec(5, 2)}

InitTier ==
    /\ InitObjects
    /\ InitEstimate
    /\ growth_call = NoCall
    /\ \E s \in SizeArgs, b \in BaseMonthlyValues, t \in TierTables :
          tier_call = [per_account_size_gb |-> s, base_monthly |-> b, tiers |-> t,
                       ret |-> FZero, done |-> FALSE]

TierApply ==
    /\ ~tier_call.done
    /\ tier_call' =
          [tier_call EXCEPT
              !.ret = blobs_vaulted_pi_monthly_fee(tier_call.per_account_size_gb,
                                                   tier_call.base_monthly,
                                                   tier_call.tiers),
              !.done = TRUE]
    /\ UNCHANGED <<obj_vars, est_vars, growth_call>>

SpecTier == InitTier /\ [][TierApply]_vars

(***************************************************************************)
(* Properties of the estimate (specification Spec).                        *)
(***************************************************************************)
\* the records the run has assembled so far
Records == 1..Len(breakdown_by_year)

Running == pc \in {"loop", "returned", "raised"}

\* the four cost lines of a record, added in the order of the source
CostLines(rec) ==
    FAdd(FAdd(FAdd(rec.storage_cost_year, rec.transactions.total_txn_cost),
              rec.private_link.total_pl_cost),
         rec.logging.ingestion_cost_year)

BackupFeesZero(bk) ==
    /\ bk.pi_monthly_fee_per_account = FZero
    /\ bk.instance_cost_year = FZero
    /\ bk.vault_storage_cost_year = FZero
    /\ bk.backup_write_ops_year = FZero
    /\ bk.backup_write_ops_cost_year = FZero

\* the values construction is to accept: no negative scale value, years > 0,
\* growth rate > -1
ValidInputs(inp) ==
    /\ inp.num_clients >= 0
    /\ ~IsNegative(inp.envs_per_client)
    /\ inp.num_regions >= 0
    /\ inp.storage_accounts_per_region >= 0
    /\ inp.deployments_per_env_per_year >= 0
    /\ inp.pr_runs_per_client_per_year >= 0
    /\ inp.years > 0
    /\ FLess(FromInt(-1), inp.growth_rate_clients)

\* C1: no instance holds invalid values (its construction ended in an error),
\* and estimate_backend_costs returns no result for invalid inputs
C1_InvalidInputsRejected ==
    /\ \A i \in 1..Len(instances) : ValidInputs(instances[i])
    /\ result.returned => ValidInputs(Inp)

RECURSIVE SumOfTotals(_, _)
SumOfTotals(recs, n) ==
    IF n = 0 THEN FZero
    ELSE FAdd(SumOfTotals(recs, n - 1), recs[n].year_total_cost)

\* C3: the grand_total returned is the sum of year_total_cost over the records
\* of by_year, and 0 when by_year is empty
C3_GrandTotalIsSum ==
    result.returned =>
        /\ result.grand_total = SumOfTotals(result.by_year, Len(result.by_year))
        /\ result.by_year = <<>> => result.grand_total = FZero

C3_Witness ==
    /\ result.returned
    /\ Len(result.by_year) = 3
    /\ result.grand_total # result.by_year[1].year_total_cost
    /\ ~IsNegative(result.by_year[3].year_total_cost)
    /\ result.by_year[3].year_total_cost # FZero

\* C4: with total_accounts = 0 the run raises no division fault, and in every
\* record the log-ingestion volume and cost and every backup number are 0,
\* in every backup mode
C4_NoAccountsAllZero ==
    (Running /\ total_accounts(Inp) = 0) =>
        /\ pc # "raised"
        /\ \A i \in Records :
              LET rec == breakdown_by_year[i] IN
              /\ rec.logging.gb_per_account_per_month = FZero
              /\ rec.logging.ingestion_gb_year = FZero
              /\ rec.logging.ingestion_cost_year = FZero
              /\ rec.backup.per_account_size_gb = FZero
              /\ BackupFeesZero(rec.backup)

C4_Witness ==
    /\ pc = "returned"
    /\ total_accounts(Inp) = 0
    /\ Inp.backup_mode = "blobs_vaulted"
    /\ Inp.blob_vaulted_pi_price_per_month # FZero
    /\ Len(result.by_year) = 2
    /\ result.by_year[2].transactions.total > 0

\* C5: in mode "none" every backup number of every record is zero and the year
\* total is the four cost lines alone
C5_NoneModeNoBackup ==
    (Running /\ Inp.backup_mode = "none") =>
        \A i \in Records :
            LET rec == breakdown_by_year[i] IN
            /\ rec.backup.per_account_size_gb = FZero
            /\ BackupFeesZero(rec.backup)
            /\ rec.year_total_cost = CostLines(rec)

C5_Witness ==
    /\ pc = "returned"
    /\ Inp.backup_mode = "none"
    /\ total_accounts(Inp) > 0
    /\ Inp.blob_vaulted_pi_price_per_month # FZero
    /\ Len(result.by_year) = 2
    /\ result.by_year[2].year_total_cost # FZero

\* C6: the year total is the four cost lines, plus the three backup costs
\* exactly in blobs_vaulted mode; in blobs_operational mode the per-account
\* size is recorded, the fees are zero and nothing is added
C6_YearTotalComposition ==
    Running =>
        \A i \in Records :
            LET rec == breakdown_by_year[i]
                fees == FAdd(FAdd(rec.backup.instance_cost_year,
                                  rec.backup.vault_storage_cost_year),
                             rec.backup.backup_write_ops_cost_year)
            IN  /\ Inp.backup_mode = "blobs_vaulted"
                      => rec.year_total_cost = FAdd(CostLines(rec), fees)
                /\ Inp.backup_mode # "blobs_vaulted"
                      => rec.year_total_cost = CostLines(rec)
                /\ (Inp.backup_mode = "blobs_vaulted" /\ total_accounts(Inp) > 0
                        /\ Inp.blob_vaulted_pi_price_per_month = FromInt(8)
                        /\ FLess(rec.backup.per_account_size_gb, FromInt(10)))
                      => rec.backup.instance_cost_year =
                             FMul(FMul(FMul(FromInt(8), Dec(10, 100)),
                                       FromInt(total_accounts(Inp))), FromInt(12))
                /\ Inp.backup_mode = "blobs_operational"
                      => /\ BackupFeesZero(rec.backup)
                         /\ total_accounts(Inp) > 0 =>
                               rec.backup.per_account_size_gb =
                                   FDiv(FMul(rec.environments_global,
                                             FDiv(Inp.avg_state_size_mb, FromInt(1024))),
                                        FromInt(total_accounts(Inp)))

C6_Witness ==
    /\ pc = "returned"
    /\ Inp.backup_mode = "blobs_vaulted"
    /\ total_accounts(Inp) > 0
    /\ Len(result.by_year) = 2
    /\ result.by_year[2].backup.instance_cost_year # FZero
    /\ result.by_year[2].backup.vault_storage_cost_year # FZero
    /\ result.by_year[2].backup.backup_write_ops_cost_year # FZero
    /\ result.by_year[2].year_total_cost # CostLines(result.by_year[2])

\* the values num_regions and storage_accounts_per_region are changed to
OtherRegions == {<<1, 1>>, <<0, 2>>, <<3, 1>>}

\* C9: storage_accounts is num_regions * storage_accounts_per_region and
\* endpoint_hours is storage_accounts * hours_per_month * 12 in every record,
\* the same in all years; environments_global is the year's clients times
\* envs_per_client and does not change with the region counts
C9_FixedInfrastructure ==
    Running =>
        \A i \in Records :
            LET rec == breakdown_by_year[i] IN
            /\ rec.storage_accounts = Inp.num_regions * Inp.storage_accounts_per_region
            /\ rec.private_link.endpoint_hours =
                   FMul(FMul(FromInt(rec.storage_accounts), Inp.hours_per_month),
                        FromInt(12))
            /\ rec.storage_accounts = breakdown_by_year[1].storage_accounts
            /\ rec.private_link.endpoint_hours =
                   breakdown_by_year[1].private_link.endpoint_hours
            /\ rec.environments_global = FMul(FromInt(rec.clients), Inp.envs_per_client)
            /\ i = Len(breakdown_by_year) =>
                  \A o \in OtherRegions :
                      YearBreakdown([Inp EXCEPT !.num_regions = o[1],
                                                !.storage_accounts_per_region = o[2]],
                                    TiersOf(inputs), rates, i - 1).environments_global
                          = rec.environments_global

C9_Witness ==
    /\ pc = "returned"
    /\ total_accounts(Inp) > 0
    /\ Len(result.by_year) = 3
    /\ result.by_year[1].clients < result.by_year[2].clients
    /\ result.by_year[2].clients < result.by_year[3].clients
    /\ result.by_year[1].private_link.endpoint_hours # FZero

\* C10: for years >= 1 the run ends after exactly years iterations with years
\* records in order, record i carrying year_index i and the clients of index
\* i - 1; a record is the one a run with any shorter horizon that reaches it
\* assembles
C10_OneRecordPerYear ==
    (Running /\ Inp.years >= 1) =>
        /\ pc # "raised"
        /\ Len(breakdown_by_year) = y
        /\ y <= Inp.years
        /\ pc = "returned" =>
              /\ y = Inp.years
              /\ result.by_year = breakdown_by_year
              /\ Len(result.by_year) = Inp.years
        /\ \A i \in Records :
              /\ breakdown_by_year[i].year_index = i
              /\ breakdown_by_year[i].clients =
                     clients_in_year(Inp.num_clients, Inp.growth_rate_clients, i - 1)
        /\ y >= 1 =>
              breakdown_by_year[y] =
                  YearBreakdown([Inp EXCEPT !.years = y], TiersOf(inputs), rates, y - 1)

C10_Witness ==
    /\ pc = "returned"
    /\ Inp.years = 3
    /\ Len(result.by_year) = 3
    /\ result.by_year[3].year_index = 3
    /\ result.by_year[3].clients > result.by_year[1].clients

(***************************************************************************)
(* Properties of the two functions (specifications SpecTier, SpecGrowth).  *)
(***************************************************************************)
\* the band of a size >= 0, from its integer part
BandOf(size) ==
    IF Trunc(size) < 10 THEN "<10GB"
    ELSE IF Trunc(size) < 100 THEN "10-100GB"
    ELSE IF Trunc(size) < 1024 THEN "100GB-1TB"
    ELSE ">=1TB"

\* the fraction billed for a band: the table's, or 0.0 (1.0 for the top band)
\* when the table has no such key
FractionOf(tiers, band) ==
    IF band \in DOMAIN tiers THEN tiers[band]
    ELSE IF band = ">=1TB" THEN FromInt(1) ELSE FZero

\* C7: the fee is base_monthly times the fraction of the one band the size
\* falls in, [0,10), [10,100), [100,1024), [1024,inf); a missing key counts as
\* 0.0 in the three lower bands and 1.0 in the top band
C7_TierBands ==
    tier_call.done =>
        /\ tier_call.ret =
               FMul(tier_call.base_monthly,
                    FractionOf(tier_call.tiers, BandOf(tier_call.per_account_size_gb)))
        /\ (tier_call.tiers = DefaultTiers /\ tier_call.base_monthly = FromInt(8)) =>
              /\ tier_call.per_account_size_gb = Dec(9999, 1000)
                    => tier_call.ret = FMul(FromInt(8), Dec(10, 100))
              /\ tier_call.per_account_size_gb = FromInt(10)
                    => tier_call.ret = FMul(FromInt(8), Dec(30, 100))
              /\ tier_call.per_account_size_gb = FromInt(1024)
                    => tier_call.ret = FMul(FromInt(8), Dec(100, 100))

C7_Witness ==
    /\ tier_call.done
    /\ tier_call.per_account_size_gb = FromInt(10)
    /\ tier_call.tiers = DefaultTiers
    /\ tier_call.ret = FMul(tier_call.base_monthly, Dec(3, 10))
    /\ tier_call.ret # FMul(tier_call.base_monthly, Dec(1, 10))

\* 1 + rate for a float rate > -1, exactly: the numerator over 2^(-rate.e)
OnePlusRate(rate) ==
    IF rate.m = <<>> THEN <<1>>
    ELSE IF rate.neg THEN BSub(BShl(<<1>>, -rate.e), rate.m)
    ELSE BAdd(BShl(<<1>>, -rate.e), rate.m)

\* n * 2^k as against base * (1 + rate)^index * 2^k: -1, 0, 1
CompareToGrowth(n, base, rate, index) ==
    BCmp(BShl(BFromNat(n), (-rate.e) * index),
         BMul(BFromNat(base), BPow(OnePlusRate(rate), index)))

\* C8: for base >= 0, rate > -1 and index >= 0 the result is the least
\* integer >= base * (1 + rate)^index, the rate taken at its exact value: it
\* is not negative, not below the compounded value, less than that value plus
\* 1, and base itself at index 0
C8_CeilOfExactGrowth ==
    (growth_call.done /\ FLess(FromInt(-1), growth_call.growth_rate)) =>
        LET c == growth_call IN
        /\ c.ret >= 0
        /\ CompareToGrowth(c.ret, c.base_clients, c.growth_rate, c.year_index) >= 0
        /\ c.ret >= 1 =>
              CompareToGrowth(c.ret - 1, c.base_clients, c.growth_rate, c.year_index) < 0
        /\ c.year_index = 0 => c.ret = c.base_clients

(***************************************************************************)
(* Properties of the Inputs objects (specification SpecInputs).            *)
(***************************************************************************)
RefOf(i) == instances[i].blob_vaulted_tiers

\* C2 as stated: no two instances reference the same table
C2_NoSharedTable ==
    \A i, j \in 1..Len(instances) : i # j => RefOf(i) # RefOf(j)

\* the four default bands
IsDefaultTable(t) ==
    /\ DOMAIN t = {"<10GB", "10-100GB", "100GB-1TB", ">=1TB"}
    /\ t["<10GB"] = Dec(1, 10)
    /\ t["10-100GB"] = Dec(3, 10)
    /\ t["100GB-1TB"] = Dec(6, 10)
    /\ t[">=1TB"] = FromInt(1)

\* two instances reference one table only if the later one was constructed
\* with that table as its argument
SharedOnlyByArgument ==
    \A i, j \in 1..Len(instances) :
        (i < j /\ RefOf(i) = RefOf(j)) => tiers_arg[j] = RefOf(i)

\* a construction with the table unset makes a new dict of the four default
\* bands, which no earlier instance references
UnsetGetsFreshDefault ==
    (Len(instances') = Len(instances) + 1 /\ tiers_arg'[Len(instances')] = None) =>
        /\ instances'[Len(instances')].blob_vaulted_tiers = Len(heap) + 1
        /\ Len(heap') = Len(heap) + 1
        /\ IsDefaultTable(heap'[Len(heap')])
        /\ \A i \in 1..Len(instances) : heap'[RefOf(i)] = heap[RefOf(i)]

\* an item assignment through one instance changes the table of another only
\* if the two reference the same table
SetItemStaysLocal ==
    (last'.op = "setitem" /\ Len(instances') = Len(instances)) =>
        \A j \in 1..Len(instances) :
            heap'[RefOf(j)] # heap[RefOf(j)] => RefOf(j) = RefOf(last'.inst)

\* C2, amended: an instance built with the table unset holds a new dict of
\* the four default bands; the constructor keeps a given table by reference,
\* so two instances share a table exactly when the caller gave the later one
\* the table the earlier one references, and only then does an assignment
\* through one show in the other
C2_OwnTableUnlessGiven ==
    [][SharedOnlyByArgument' /\ UnsetGetsFreshDefault /\ SetItemStaysLocal]_vars

C2_Witness ==
    /\ Len(instances) = 2
    /\ tiers_arg[1] = None
    /\ tiers_arg[2] = None
    /\ RefOf(1) # RefOf(2)
    /\ last.op = "setitem"
    /\ last.inst = 1
    /\ ~IsDefaultTable(heap[RefOf(1)])
    /\ IsDefaultTable(heap[RefOf(2)])

====
